---- MODULE Spec2Model ----
(***************************************************************************)
(* Model of the Go rules engine of correspodence-go: GoBoard (board.py)    *)
(* and the commands of cli.py that change a stored game.                   *)
(***************************************************************************)
EXTENDS Integers, Sequences, FiniteSets, TLC

(* ---------------------------------------------------------------------- *)
(* Bounds of the model                                                     *)
(* ---------------------------------------------------------------------- *)

\* Side length of the modelled board (the program uses 9, 13 or 19).
Size == 3

\* Moves explored from the empty board, and beyond each of the Openings.
MaxMoves == 3

(* ---------------------------------------------------------------------- *)
(* Stone (board.py: class Stone)                                           *)
(* ---------------------------------------------------------------------- *)

EMPTY == 0

BLACK == 1

WHITE == 2

Colors == {BLACK, WHITE}

opposite(s) ==
    IF s = BLACK THEN WHITE
    ELSE IF s = WHITE THEN BLACK
    ELSE EMPTY

\* Optional[Tuple[int, int]]: the value None of ko_point.
None == <<>>

(* ---------------------------------------------------------------------- *)
(* GoBoard: grid access                                                    *)
(* ---------------------------------------------------------------------- *)

Coords == 0 .. (Size - 1)

\* The intersections of the grid, as (x, y).
Points == {<<x, y>> : x \in Coords, y \in Coords}

\* The positions a caller passes: every intersection, and positions off the
\* grid on each side of it (the pass sentinel (-1, -1) among them).
ArgPoints == Points \cup {<<-1, -1>>, <<Size, 0>>, <<0, Size>>}

\* self.board = [[EMPTY for _ in range(size)] for _ in range(size)]
EmptyBoard == [y \in Coords |-> [x \in Coords |-> EMPTY]]

\* _is_valid_position(x, y) on a board with self.size = size.
IsValidPositionOn(size, x, y) == 0 <= x /\ x < size /\ 0 <= y /\ y < size

_is_valid_position(x, y) == IsValidPositionOn(Size, x, y)

\* get(x, y): self.board[y][x] (callers below pass in-bounds positions only)
get(b, x, y) == b[y][x]

\* As set, with the two indices exchanged.
SetTransposed(b, x, y, stone) == [b EXCEPT ![x][y] = stone]

\* set(x, y, stone): self.board[y][x] = stone
set(b, x, y, stone) == [b EXCEPT ![y][x] = stone]

\* A direction list with a diagonal step in place of the step to the left.
DirectionsWithDiagonal == << <<0, 1>>, <<1, 0>>, <<0, -1>>, <<-1, -1>> >>

\* The direction list of _get_neighbors, in the order the code examines it.
Directions == << <<0, 1>>, <<1, 0>>, <<0, -1>>, <<-1, 0>> >>

\* The body of _get_neighbors on a board with self.size = size: the in-bounds
\* positions among the four, in order.
NeighborsOn(size, x, y) ==
    LET cand == [i \in 1 .. Len(Directions) |->
                    <<x + Directions[i][1], y + Directions[i][2]>>]
        InBounds(p) == IsValidPositionOn(size, p[1], p[2])
    IN  SelectSeq(cand, InBounds)

\* _get_neighbors on the modelled board.
NeighborList(x, y) == NeighborsOn(Size, x, y)

\* NeighborList tabulated over the grid (it depends on the position only).
NeighborTable == [p \in Points |-> NeighborList(p[1], p[2])]

\* _get_neighbors(x, y), called on intersections of the grid only.
_get_neighbors(x, y) == NeighborTable[<<x, y>>]

(* ---------------------------------------------------------------------- *)
(* Groups, liberties, captures                                             *)
(* ---------------------------------------------------------------------- *)

RECURSIVE GroupLoop(_, _, _, _)
\* The while loop of _get_group: to_check is a stack, popped from the end.
GroupLoop(b, color, group, to_check) ==
    IF to_check = <<>> THEN group
    ELSE LET c    == to_check[Len(to_check)]
             rest == SubSeq(to_check, 1, Len(to_check) - 1)
         IN  IF c \in group THEN GroupLoop(b, color, group, rest)
             ELSE LET g2 == group \cup {c}
                      Same(n) == get(b, n[1], n[2]) = color /\ n \notin g2
                  IN  GroupLoop(b, color, g2,
                                rest \o SelectSeq(_get_neighbors(c[1], c[2]), Same))

\* The flood fill stopped after the neighbours of the seed.
GetGroupOneStep(b, x, y) ==
    IF get(b, x, y) = EMPTY THEN {}
    ELSE LET ns == _get_neighbors(x, y)
         IN  {<<x, y>>} \cup {ns[i] : i \in {j \in 1 .. Len(ns) :
                                              get(b, ns[j][1], ns[j][2]) = get(b, x, y)}}

_get_group(b, x, y) ==
    IF get(b, x, y) = EMPTY THEN {}
    ELSE GroupLoop(b, get(b, x, y), {}, << <<x, y>> >>)

\* True only when every stone of the group has an empty neighbour.
HasLibertiesEveryStone(b, group) ==
    \A p \in group :
        LET ns == _get_neighbors(p[1], p[2])
        IN  \E i \in 1 .. Len(ns) : get(b, ns[i][1], ns[i][2]) = EMPTY

_has_liberties(b, group) ==
    \E p \in group :
        LET ns == _get_neighbors(p[1], p[2])
        IN  \E i \in 1 .. Len(ns) : get(b, ns[i][1], ns[i][2]) = EMPTY

\* As _remove_group, but returning 1 for a removed group whatever its size.
RemoveGroupCountsGroups(b, group) ==
    [board |-> [y \in Coords |-> [x \in Coords |->
                    IF <<x, y>> \in group THEN EMPTY ELSE b[y][x]]],
     removed |-> IF group = {} THEN 0 ELSE 1]

\* _remove_group: the board with every stone of the group removed, and len(group).
_remove_group(b, group) ==
    [board |-> [y \in Coords |-> [x \in Coords |->
                    IF <<x, y>> \in group THEN EMPTY ELSE b[y][x]]],
     removed |-> Cardinality(group)]

RECURSIVE CaptureLoop(_, _, _, _, _)
\* The for loop of _capture_stones over the neighbours ns[i..], on the live board.
CaptureLoop(b, ns, i, enemy_color, captured) ==
    IF i > Len(ns) THEN [board |-> b, captured |-> captured]
    ELSE LET nx == ns[i][1]
             ny == ns[i][2]
         IN  IF get(b, nx, ny) = enemy_color
             THEN LET group == _get_group(b, nx, ny)
                  IN  IF ~_has_liberties(b, group)
                      THEN LET r == _remove_group(b, group)
                           IN  CaptureLoop(r.board, ns, i + 1, enemy_color,
                                           captured + r.removed)
                      ELSE CaptureLoop(b, ns, i + 1, enemy_color, captured)
             ELSE CaptureLoop(b, ns, i + 1, enemy_color, captured)

\* _capture_stones with "enemy_color = color": opposite() forgotten.
CaptureStonesOwnColour(b, x, y, color) ==
    CaptureLoop(b, _get_neighbors(x, y), 1, color, 0)

_capture_stones(b, x, y, color) ==
    CaptureLoop(b, _get_neighbors(x, y), 1, opposite(color), 0)

(* ---------------------------------------------------------------------- *)
(* The fields of a GoBoard, as one record                                  *)
(* ---------------------------------------------------------------------- *)

\* As Move, with the two coordinates exchanged.
MoveSwapped(x, y, color) == [x |-> y, y |-> x, color |-> color]

\* Move(x, y, color)
Move(x, y, color) == [x |-> x, y |-> y, color |-> color]

\* GoBoard.__init__: the fields of a freshly constructed board.
NewBoard ==
    [board          |-> EmptyBoard,
     captured_black |-> 0,
     captured_white |-> 0,
     move_history   |-> <<>>,
     ko_point       |-> None]

(* ---------------------------------------------------------------------- *)
(* is_valid_move                                                           *)
(* ---------------------------------------------------------------------- *)

\* No restore: the speculative grid is left in place.
RestoreNothing(saved_board, speculative) == speculative

\* "self.set(x, y, Stone.EMPTY)" in place of the restore: the played stone is
\* taken back but the stones it captured stay off the grid.
RestoreStoneOnly(saved_board, speculative) ==
    [y \in Coords |-> [x \in Coords |->
        IF speculative[y][x] = EMPTY THEN EMPTY ELSE saved_board[y][x]]]

\* "self.board = saved_board": the grid is put back to the copy taken before
\* the speculative placement.
RestoreBoard(saved_board, speculative) == saved_board

\* "or" in place of "and".
IsSuicideOr(has_liberties, captured) == ~has_liberties \/ captured = 0

\* "is_suicide = not self._has_liberties(own_group) and captured == 0"
IsSuicide(has_liberties, captured) == ~has_liberties /\ captured = 0

\* The ko test left out.
IsKoViolationNever(ko, x, y) == FALSE

\* "if self.ko_point == (x, y): return False"
IsKoViolation(ko, x, y) == ko = <<x, y>>

\* is_valid_move(x, y, color) on a board with fields s: the value returned and
\* the grid the call leaves behind.
is_valid_move(s, x, y, color) ==
    IF ~_is_valid_position(x, y) THEN [ret |-> FALSE, board |-> s.board]
    ELSE IF get(s.board, x, y) # EMPTY THEN [ret |-> FALSE, board |-> s.board]
    ELSE IF IsKoViolation(s.ko_point, x, y) THEN [ret |-> FALSE, board |-> s.board]
    ELSE LET saved_board == s.board
             placed      == set(s.board, x, y, color)
             cap         == _capture_stones(placed, x, y, color)
             own_group   == _get_group(cap.board, x, y)
             is_suicide  == IsSuicide(_has_liberties(cap.board, own_group),
                                      cap.captured)
         IN  [ret |-> ~is_suicide, board |-> RestoreBoard(saved_board, cap.board)]

(* ---------------------------------------------------------------------- *)
(* place_stone                                                             *)
(* ---------------------------------------------------------------------- *)

\* The counters left as they were.
UpdateCapturedNothing(s, color, captured) ==
    [captured_black |-> s.captured_black, captured_white |-> s.captured_white]

\* The two counters exchanged.
UpdateCapturedSwapped(s, color, captured) ==
    IF color = BLACK
    THEN [captured_black |-> s.captured_black + captured,
          captured_white |-> s.captured_white]
    ELSE [captured_black |-> s.captured_black,
          captured_white |-> s.captured_white + captured]

\* "if color == Stone.BLACK: self.captured_white += captured
\*  else: self.captured_black += captured"
UpdateCaptured(s, color, captured) ==
    IF color = BLACK
    THEN [captured_black |-> s.captured_black,
          captured_white |-> s.captured_white + captured]
    ELSE [captured_black |-> s.captured_black + captured,
          captured_white |-> s.captured_white]

\* The old ko point kept when the move sets none.
ClearKoKeepsOld(old_ko) == old_ko

\* "self.ko_point = None" before the ko detection.
ClearKo(old_ko) == None

\* "if captured <= 1:" in place of "== 1".
KoGuardAtMostOne(captured) == captured <= 1

\* "if captured == 1:" the guard of the ko detection.
KoGuard(captured) == captured = 1

\* The liberty test left out: every lone-stone point found is taken for a ko.
KoFoundAlways(b, our_group) == TRUE

\* "if not self._has_liberties(our_group):" of the ko detection.
KoFound(b, our_group) == ~_has_liberties(b, our_group)

\* The probing stone left on the grid.
KoProbeLeft(probe, nx, ny) == probe

\* "self.set(nx, ny, Stone.EMPTY)" after the liberty test of the ko detection.
KoProbeUndo(probe, nx, ny) == set(probe, nx, ny, EMPTY)

RECURSIVE KoLoop(_, _, _, _, _, _, _)
\* The for loop of the ko detection over the neighbours ns[i..] of (x, y):
\* the ko point and the grid it leaves behind.
KoLoop(b, ko, ns, i, x, y, color) ==
    IF i > Len(ns) THEN [ko_point |-> ko, board |-> b]
    ELSE LET nx == ns[i][1]
             ny == ns[i][2]
         IN  IF get(b, nx, ny) = EMPTY
             THEN LET temp_board  == b
                      enemy_group == _get_group(set(b, nx, ny, opposite(color)), nx, ny)
                  IN  IF Cardinality(enemy_group) = 1
                      THEN LET probe     == set(temp_board, nx, ny, opposite(color))
                               our_group == _get_group(probe, x, y)
                           IN  [ko_point |-> IF KoFound(probe, our_group)
                                             THEN <<nx, ny>> ELSE ko,
                                board    |-> KoProbeUndo(probe, nx, ny)]
                      ELSE KoLoop(temp_board, ko, ns, i + 1, x, y, color)
             ELSE KoLoop(b, ko, ns, i + 1, x, y, color)

\* The ko update of place_stone on the grid b left by the captures.
UpdateKo(b, old_ko, x, y, color, captured) ==
    IF KoGuard(captured)
    THEN KoLoop(b, ClearKo(old_ko), _get_neighbors(x, y), 1, x, y, color)
    ELSE [ko_point |-> ClearKo(old_ko), board |-> b]

\* place_stone(x, y, color) on a board with fields s: the value returned and
\* the fields afterwards.
place_stone(s, x, y, color) ==
    LET v == is_valid_move(s, x, y, color)
    IN  IF ~v.ret THEN [ret |-> FALSE, s |-> [s EXCEPT !.board = v.board]]
        ELSE LET placed == set(v.board, x, y, color)
                 cap    == _capture_stones(placed, x, y, color)
                 cnt    == UpdateCaptured(s, color, cap.captured)
                 ko     == UpdateKo(cap.board, s.ko_point, x, y, color, cap.captured)
             IN  [ret |-> TRUE,
                  s   |-> [board          |-> ko.board,
                           captured_black |-> cnt.captured_black,
                           captured_white |-> cnt.captured_white,
                           move_history   |-> Append(s.move_history, Move(x, y, color)),
                           ko_point       |-> ko.ko_point]]

(* ---------------------------------------------------------------------- *)
(* Human-readable coordinates (Move.to_human_coords, from_human_coords)    *)
(* ---------------------------------------------------------------------- *)

\* A str is the sequence of its characters.
UpperLetters ==
    << "A", "B", "C", "D", "E", "F", "G", "H", "I", "J", "K", "L", "M",
       "N", "O", "P", "Q", "R", "S", "T", "U", "V", "W", "X", "Y", "Z" >>

LowerLetters ==
    << "a", "b", "c", "d", "e", "f", "g", "h", "i", "j", "k", "l", "m",
       "n", "o", "p", "q", "r", "s", "t", "u", "v", "w", "x", "y", "z" >>

DigitChars == << "0", "1", "2", "3", "4", "5", "6", "7", "8", "9" >>

IsIn(seq, ch) == \E i \in 1 .. Len(seq) : seq[i] = ch

IndexIn(seq, ch) == CHOOSE i \in 1 .. Len(seq) : seq[i] = ch

\* ord(ch) for letters and digits: 'A' is 65, 'a' is 97, '0' is 48.
Ord(ch) ==
    IF IsIn(UpperLetters, ch) THEN 65 + (IndexIn(UpperLetters, ch) - 1)
    ELSE IF IsIn(LowerLetters, ch) THEN 97 + (IndexIn(LowerLetters, ch) - 1)
    ELSE 48 + (IndexIn(DigitChars, ch) - 1)

\* chr(n) for the codes of letters and digits.
Chr(n) ==
    IF 65 <= n /\ n <= 90 THEN UpperLetters[n - 65 + 1]
    ELSE IF 97 <= n /\ n <= 122 THEN LowerLetters[n - 97 + 1]
    ELSE DigitChars[n - 48 + 1]

\* ch.upper()
Upper(ch) == IF IsIn(LowerLetters, ch) THEN UpperLetters[IndexIn(LowerLetters, ch)] ELSE ch

\* ch.lower()
Lower(ch) == IF IsIn(UpperLetters, ch) THEN LowerLetters[IndexIn(UpperLetters, ch)] ELSE ch

RECURSIVE IntToStr(_)
\* str(n) for n >= 0: the decimal digits of n.
IntToStr(n) ==
    IF n < 10 THEN << DigitChars[n + 1] >>
    ELSE IntToStr(n \div 10) \o << DigitChars[(n % 10) + 1] >>

RECURSIVE DigitsValue(_, _)
\* The number written by the decimal digits text, after the digits read so far.
DigitsValue(text, acc) ==
    IF text = <<>> THEN acc
    ELSE DigitsValue(Tail(text), 10 * acc + (IndexIn(DigitChars, Head(text)) - 1))

\* int(text) for a text of letters and digits: ValueError unless it is one or
\* more decimal digits.
ParseInt(text) ==
    IF text = <<>> \/ \E i \in 1 .. Len(text) : ~IsIn(DigitChars, text[i])
    THEN [raised |-> "ValueError"]
    ELSE [raised |-> "None", value |-> DigitsValue(text, 0)]

\* "col = chr(ord('A') + self.x)"
ColumnLetter(x) == Chr(Ord("A") + x)

\* to_human_coords of Move(x, y, color): f"{col}{row}"
to_human_coords(move) == << ColumnLetter(move.x) >> \o IntToStr(move.y + 1)

\* from_human_coords(coords, color): the Move, or ValueError.
from_human_coords(coords, color) ==
    IF Len(coords) < 2 \/ Len(coords) > 3 THEN [raised |-> "ValueError"]
    ELSE LET col == Ord(Upper(coords[1])) - Ord("A")
             row == ParseInt(SubSeq(coords, 2, Len(coords)))
         IN  IF row.raised # "None" THEN [raised |-> "ValueError"]
             ELSE [raised |-> "None", move |-> Move(col, row.value - 1, color)]

(* ---------------------------------------------------------------------- *)
(* Replay of a history (cmd_show --move)                                   *)
(* ---------------------------------------------------------------------- *)

RECURSIVE ReplayLoop(_, _, _, _)
\* "for i in range(args.move): move = board.move_history[i]; if move.x >= 0
\*  and move.y >= 0: temp_board.place_stone(move.x, move.y, move.color)"
ReplayLoop(temp, history, i, n) ==
    IF i > n THEN temp
    ELSE LET move == history[i]
         IN  IF move.x >= 0 /\ move.y >= 0
             THEN ReplayLoop(place_stone(temp, move.x, move.y, move.color).s,
                             history, i + 1, n)
             ELSE ReplayLoop(temp, history, i + 1, n)

\* The fresh board on which the first n entries of a history were replayed.
Replay(history, n) == ReplayLoop(NewBoard, history, 1, n)

(* ---------------------------------------------------------------------- *)
(* save_to_dict, load_from_dict, and the JSON file between them            *)
(* ---------------------------------------------------------------------- *)

\* stone.value
StoneValue(stone) ==
    CASE stone = EMPTY -> 0
      [] stone = BLACK -> 1
      [] stone = WHITE -> 2

\* Stone(value)
StoneOfValue(value) ==
    CASE value = 0 -> EMPTY
      [] value = 1 -> BLACK
      [] value = 2 -> WHITE

\* save_to_dict: the dictionary written for a board with fields s.
save_to_dict(s) ==
    [size           |-> Size,
     board          |-> [y \in Coords |-> [x \in Coords |-> StoneValue(s.board[y][x])]],
     captured_black |-> s.captured_black,
     captured_white |-> s.captured_white,
     moves          |-> [i \in 1 .. Len(s.move_history) |->
                            << s.move_history[i].x, s.move_history[i].y,
                               StoneValue(s.move_history[i].color) >>],
     ko_point       |-> s.ko_point]

\* json.dump of a value of the dictionary: an integer is written as a number,
\* None as null, a list or a tuple as an array of its items.
JsonNumber(n) == [type |-> "number", value |-> n]

JsonNull == [type |-> "null"]

JsonArray(items) == [type |-> "array", items |-> items]

\* json.dump(board.save_to_dict(), f): the text of the file, as a JSON object.
JsonDump(data) ==
    [size           |-> JsonNumber(data.size),
     board          |-> JsonArray([y \in Coords |->
                            JsonArray([x \in Coords |-> JsonNumber(data.board[y][x])])]),
     captured_black |-> JsonNumber(data.captured_black),
     captured_white |-> JsonNumber(data.captured_white),
     moves          |-> JsonArray([i \in 1 .. Len(data.moves) |->
                            JsonArray([k \in 1 .. 3 |-> JsonNumber(data.moves[i][k])])]),
     ko_point       |-> IF data.ko_point = None THEN JsonNull
                        ELSE JsonArray([k \in 1 .. Len(data.ko_point) |->
                                           JsonNumber(data.ko_point[k])])]

\* json.load of one value: null gives None, a number its integer, an array the
\* list of its items.
JsonLoadNumbers(json) ==
    IF json.type = "null" THEN None
    ELSE [k \in DOMAIN json.items |-> json.items[k].value]

\* json.load(f): the dictionary read back from the file.
JsonLoad(json) ==
    [size           |-> json.size.value,
     board          |-> [y \in Coords |-> JsonLoadNumbers(json.board.items[y])],
     captured_black |-> json.captured_black.value,
     captured_white |-> json.captured_white.value,
     moves          |-> [i \in 1 .. Len(json.moves.items) |->
                            JsonLoadNumbers(json.moves.items[i])],
     ko_point       |-> JsonLoadNumbers(json.ko_point)]

\* save_game followed by load_game, as far as the dictionary goes.
JsonRoundTrip(data) == JsonLoad(JsonDump(data))

\* "if any(data['ko_point'])": a ko point made of zeros counts as absent.
TruthyAnyItem(value) == \E i \in 1 .. Len(value) : value[i] # 0

\* The truth value of data['ko_point']: None and the empty list are false, a
\* list with items is true whatever the items.
Truthy(value) == value # None /\ Len(value) > 0

\* load_from_dict: the fields of the board built from a dictionary.
load_from_dict(data) ==
    [board          |-> [y \in Coords |-> [x \in Coords |->
                            StoneOfValue(data.board[y][x])]],
     captured_black |-> data.captured_black,
     captured_white |-> data.captured_white,
     move_history   |-> [i \in 1 .. Len(data.moves) |->
                            Move(data.moves[i][1], data.moves[i][2],
                                 StoneOfValue(data.moves[i][3]))],
     ko_point       |-> IF Truthy(data.ko_point)
                        THEN << data.ko_point[1], data.ko_point[2] >>
                        ELSE None]

(* ---------------------------------------------------------------------- *)
(* State                                                                   *)
(* ---------------------------------------------------------------------- *)

VARIABLES
    board,            \* self.board
    captured_black,   \* self.captured_black
    captured_white,   \* self.captured_white
    move_history,     \* self.move_history
    ko_point,         \* self.ko_point
    last              \* the latest call and what it returned or raised

vars == <<board, captured_black, captured_white, move_history, ko_point, last>>

\* The fields of the board in the current state.
Fields ==
    [board          |-> board,
     captured_black |-> captured_black,
     captured_white |-> captured_white,
     move_history   |-> move_history,
     ko_point       |-> ko_point]

\* The fields of the board in the next state.
FieldsNext ==
    [board          |-> board',
     captured_black |-> captured_black',
     captured_white |-> captured_white',
     move_history   |-> move_history',
     ko_point       |-> ko_point']

PyBool(v) == IF v THEN "True" ELSE "False"

Init ==
    /\ board = NewBoard.board
    /\ captured_black = NewBoard.captured_black
    /\ captured_white = NewBoard.captured_white
    /\ move_history = NewBoard.move_history
    /\ ko_point = NewBoard.ko_point
    /\ last = [op |-> "GoBoard", ret |-> "None"]

(* ---------------------------------------------------------------------- *)
(* Actions                                                                 *)
(* ---------------------------------------------------------------------- *)

\* Positions from which play is explored MaxMoves further: each is a legal
\* sequence of place_stone calls on a new board.
Openings ==
    { \* a corner ko one capture away: W B2, W A3, B B1 (then W A1, B A2)
      << Move(1, 1, WHITE), Move(0, 2, WHITE), Move(1, 0, BLACK) >>,
      \* a two-stone white group in the corner with two liberties left
      << Move(0, 0, WHITE), Move(1, 0, WHITE), Move(2, 0, BLACK) >>,
      \* a ko taken by a stone played in the corner: W B1, W A2, B C1 (then B B2, B A1)
      << Move(1, 0, WHITE), Move(0, 1, WHITE), Move(2, 0, BLACK) >>,
      \* a corner stone taken by a stone that joins a group: W A1, B A2, B C1
      \* (then W B2, W C2, B B1)
      << Move(0, 0, WHITE), Move(0, 1, BLACK), Move(2, 0, BLACK) >> }

IsPrefix(o, h) == Len(o) <= Len(h) /\ SubSeq(h, 1, Len(o)) = o

\* The bound on the histories explored.
MayExtend(h) ==
    \/ Len(h) < MaxMoves
    \/ \E o \in Openings : IsPrefix(o, h) /\ Len(h) < Len(o) + MaxMoves

\* A call of board.place_stone(x, y, color).
PlaceStone(x, y, color) ==
    /\ MayExtend(move_history)
    /\ LET r == place_stone(Fields, x, y, color)
       IN  /\ board' = r.s.board
           /\ captured_black' = r.s.captured_black
           /\ captured_white' = r.s.captured_white
           /\ move_history' = r.s.move_history
           /\ ko_point' = r.s.ko_point
           /\ last' = [op |-> "place_stone", ret |-> PyBool(r.ret)]

\* A call of board.is_valid_move(x, y, color).
IsValidMove(x, y, color) ==
    /\ LET v == is_valid_move(Fields, x, y, color)
       IN  /\ board' = v.board
           /\ last' = [op |-> "is_valid_move", ret |-> PyBool(v.ret)]
    /\ UNCHANGED <<captured_black, captured_white, move_history, ko_point>>

\* args.color of cmd_move: None when --color is not given.
ColorArgs == {"None", "black", "white"}

\* As MoveColor, but with white to move on an even number of recorded moves.
MoveColorWhiteFirst(color_arg, history) ==
    IF color_arg # "None"
    THEN (IF color_arg = "black" THEN BLACK ELSE WHITE)
    ELSE (IF Len(history) % 2 = 0 THEN WHITE ELSE BLACK)

\* cmd_move, "Determine whose turn it is".
MoveColor(color_arg, history) ==
    IF color_arg # "None"
    THEN (IF color_arg = "black" THEN BLACK ELSE WHITE)
    ELSE (IF Len(history) % 2 = 0 THEN BLACK ELSE WHITE)

\* As CmdMovePass, with the ko point cleared by the pass.
CmdMovePassClearsKo(color_arg) ==
    /\ MayExtend(move_history)
    /\ move_history' = Append(move_history,
                              Move(-1, -1, MoveColor(color_arg, move_history)))
    /\ ko_point' = None
    /\ last' = [op |-> "cmd_move pass", ret |-> "None", color_arg |-> color_arg]
    /\ UNCHANGED <<board, captured_black, captured_white>>

\* cmd_move with position "pass": the stored game is loaded, Move(-1, -1, color)
\* is appended to its history, and it is saved.
CmdMovePass(color_arg) ==
    /\ MayExtend(move_history)
    /\ move_history' = Append(move_history,
                              Move(-1, -1, MoveColor(color_arg, move_history)))
    /\ last' = [op |-> "cmd_move pass", ret |-> "None", color_arg |-> color_arg]
    /\ UNCHANGED <<board, captured_black, captured_white, ko_point>>

\* The position arguments tried: the intersections of the diagonal in upper
\* case, one in lower case, and texts that are too short, not a number, or that name
\* a row or a column off the grid.
PositionArgs ==
    {to_human_coords(Move(p[1], p[2], BLACK)) : p \in {q \in Points : q[1] = q[2]}}
        \cup {<<"a", "1">>, <<"A">>, <<"A", "x">>, <<"A", "0">>, <<Chr(Ord("A") + Size), "1">>}

\* "success, error_msg = board.place_stone(...)": every return statement of
\* place_stone returns a bool, and unpacking a bool into two names raises
\* TypeError (a bool is not iterable).
UnpackPlaceStone(ret) == IF ret \in BOOLEAN THEN "TypeError" ELSE "None"

\* cmd_move after the call of place_stone, which returned r.ret and left the
\* board r.s in memory: the unpacking, the failure exit, and save_game.
cmd_move_placed(s, r) ==
    IF UnpackPlaceStone(r.ret) # "None"
    THEN [ret |-> UnpackPlaceStone(r.ret), stored |-> s]
    ELSE IF ~r.ret THEN [ret |-> "exit 1", stored |-> s]
    ELSE [ret |-> "None", stored |-> r.s]

\* cmd_move from "Make the move" on, for the move parsed from the position.
cmd_move_stone(s, move, color) ==
    cmd_move_placed(s, place_stone(s, move.x, move.y, color))

\* cmd_move with a position other than "pass", on the stored game s: how the
\* command ends and the game that is stored afterwards.
cmd_move(s, color_arg, position) ==
    LET color  == MoveColor(color_arg, s.move_history)
        parsed == from_human_coords(position, color)
    IN  IF parsed.raised # "None" THEN [ret |-> "exit 1", stored |-> s]
        ELSE cmd_move_stone(s, parsed.move, color)

CmdMove(color_arg, position) ==
    /\ MayExtend(move_history)
    /\ \E out \in {cmd_move(Fields, color_arg, position)} :
           /\ board' = out.stored.board
           /\ captured_black' = out.stored.captured_black
           /\ captured_white' = out.stored.captured_white
           /\ move_history' = out.stored.move_history
           /\ ko_point' = out.stored.ko_point
           /\ last' = [op |-> "cmd_move", ret |-> out.ret, color_arg |-> color_arg]

\* save_game followed by load_game: the board a command works on is the one
\* load_from_dict builds from the file save_to_dict wrote.
SaveLoad ==
    /\ LET loaded == load_from_dict(JsonRoundTrip(save_to_dict(Fields)))
       IN  /\ board' = loaded.board
           /\ captured_black' = loaded.captured_black
           /\ captured_white' = loaded.captured_white
           /\ move_history' = loaded.move_history
           /\ ko_point' = loaded.ko_point
    /\ last' = [op |-> "load_game", ret |-> "GoBoard"]

\* "board.undo_last_move()": GoBoard defines no attribute of that name.
UndoLastMove == "AttributeError"

\* cmd_undo: with an empty history it exits with status 1; otherwise it calls
\* board.undo_last_move(), which GoBoard does not define: the call raises
\* AttributeError before anything is changed or saved.
CmdUndo ==
    /\ last' = [op  |-> "cmd_undo",
                ret |-> IF move_history = <<>> THEN "exit 1" ELSE UndoLastMove]
    /\ UNCHANGED <<board, captured_black, captured_white, move_history, ko_point>>

Next ==
    \/ \E p \in ArgPoints, color \in Colors : PlaceStone(p[1], p[2], color)
    \/ \E p \in ArgPoints, color \in Colors : IsValidMove(p[1], p[2], color)

Spec == Init /\ [][Next]_vars

\* place_stone calls and the commands of the command line on one stored game.
NextCli ==
    \/ \E p \in ArgPoints, color \in Colors : PlaceStone(p[1], p[2], color)
    \/ \E color_arg \in ColorArgs : CmdMovePass(color_arg)
    \/ \E color_arg \in ColorArgs, position \in PositionArgs : CmdMove(color_arg, position)
    \/ CmdUndo
    \/ SaveLoad

SpecCli == Init /\ [][NextCli]_vars

(* ---------------------------------------------------------------------- *)
(* Reference notions used to state the properties                          *)
(* ---------------------------------------------------------------------- *)

Abs(n) == IF n < 0 THEN -n ELSE n

\* Orthogonal adjacency of two intersections.
Adjacent(p, q) == Abs(p[1] - q[1]) + Abs(p[2] - q[2]) = 1

At(b, p) == b[p[2]][p[1]]

RECURSIVE Grow(_, _)
\* The least set containing S and closed under same-colour adjacency on b.
Grow(b, S) ==
    LET T == S \cup {q \in Points : \E r \in S : Adjacent(q, r) /\ At(b, q) = At(b, r)}
    IN  IF T = S THEN S ELSE Grow(b, T)

\* The maximal same-colour connected group of the stone at p.
Component(b, p) == Grow(b, {p})

\* The empty intersections adjacent to a set of intersections.
Liberties(b, G) == {r \in Points : At(b, r) = EMPTY /\ \E q \in G : Adjacent(q, r)}

\* Every group on the grid has a liberty.
AllGroupsAlive(b) ==
    \A p \in Points : At(b, p) # EMPTY => Liberties(b, Component(b, p)) # {}

\* The stones of colour c on the grid.
StonesOf(b, c) == {p \in Points : At(b, p) = c}

\* The opposite-colour stones that a stone of colour c played at the empty
\* point p leaves without a liberty: the stones of the groups next to p that
\* have no liberty once the stone stands.
Doomed(b, p, c) ==
    LET b1 == set(b, p[1], p[2], c)
    IN  {q \in StonesOf(b1, opposite(c)) :
            /\ \E r \in Component(b1, q) : Adjacent(r, p)
            /\ Liberties(b1, Component(b1, q)) = {}}

\* Playing c at the empty point p captures nothing and leaves the group of
\* the played stone without a liberty.
SuicideAt(b, p, c) ==
    LET b1 == set(b, p[1], p[2], c)
    IN  Doomed(b, p, c) = {} /\ Liberties(b1, Component(b1, p)) = {}

\* The step is a successful place_stone: it appended one record to the history.
PlacedStep ==
    /\ last'.op = "place_stone"
    /\ last'.ret = "True"
    /\ Len(move_history') = Len(move_history) + 1

\* The move of a PlacedStep.
Played == move_history'[Len(move_history')]

PlayedAt == <<Played.x, Played.y>>

\* The stones that left the grid in the step.
Removed == {q \in Points : board[q[2]][q[1]] # EMPTY /\ board'[q[2]][q[1]] = EMPTY}

(* ---------------------------------------------------------------------- *)
(* C1                                                                      *)
(* ---------------------------------------------------------------------- *)

\* C1: after every successful place_stone, every maximal same-colour group
\* on the grid has at least one adjacent empty intersection.
C1_NoDeadGroupAfterMove ==
    (last.op = "place_stone" /\ last.ret = "True") => AllGroupsAlive(board)

\* A successful place_stone that captured: stones were taken and the grid is
\* not empty.
C1_Witness ==
    /\ last.op = "place_stone" /\ last.ret = "True"
    /\ captured_black + captured_white > 0
    /\ \E p \in Points : At(board, p) # EMPTY

(* ---------------------------------------------------------------------- *)
(* C2                                                                      *)
(* ---------------------------------------------------------------------- *)

\* place_stone(p, c) is illegal: off the grid, occupied, the ko point, or suicide.
IllegalMove(p, c) ==
    \/ ~_is_valid_position(p[1], p[2])
    \/ At(board, p) # EMPTY
    \/ ko_point = p
    \/ SuicideAt(board, p, c)

\* C2: an illegal place_stone returns failure and leaves the grid, both
\* capture counters, the history and the ko point as they were.
C2_IllegalMoveChangesNothing ==
    \A p \in ArgPoints, c \in Colors :
        IllegalMove(p, c) =>
            LET r == place_stone(Fields, p[1], p[2], c)
            IN  r.ret = FALSE /\ r.s = Fields

\* A place_stone was just rejected on a board that has stones, captures and a
\* ko point, all of which the call kept.
C2_Witness ==
    /\ last.op = "place_stone" /\ last.ret = "False"
    /\ ko_point # None
    /\ captured_black + captured_white > 0

(* ---------------------------------------------------------------------- *)
(* C3                                                                      *)
(* ---------------------------------------------------------------------- *)

\* C3: is_valid_move leaves the grid, both capture counters, the history and
\* the ko point unchanged, whatever it returns.
C3_IsValidMoveHasNoEffect ==
    [][last'.op = "is_valid_move" =>
          UNCHANGED <<board, captured_black, captured_white, move_history, ko_point>>]_vars

\* is_valid_move returned True on a board where a placement would capture.
C3_Witness ==
    /\ last.op = "is_valid_move" /\ last.ret = "True"
    /\ \E p \in Points, c \in Colors : At(board, p) = EMPTY /\ Doomed(board, p, c) # {}

(* ---------------------------------------------------------------------- *)
(* C4                                                                      *)
(* ---------------------------------------------------------------------- *)

\* C4: a successful place_stone that takes the last liberty of opposite-colour
\* groups next to the played point removes every stone of those groups, adds
\* the number of stones removed to the counter of the removed colour, and
\* leaves the other counter unchanged.
C4_CaptureRemovesGroupAndCounts ==
    [][PlacedStep =>
          LET c == Played.color
              D == Doomed(board, PlayedAt, c)
              n == Cardinality(Removed)
          IN  D # {} =>
                /\ D \subseteq Removed
                /\ IF c = BLACK
                   THEN /\ captured_white' = captured_white + n
                        /\ captured_black' = captured_black
                   ELSE /\ captured_black' = captured_black + n
                        /\ captured_white' = captured_white]_vars

\* The latest move was a successful place_stone that took two or more stones
\* at once.
C4_Witness ==
    /\ last.op = "place_stone" /\ last.ret = "True"
    /\ LET before == Replay(move_history, Len(move_history) - 1).board
           c      == opposite(move_history[Len(move_history)].color)
       IN  Cardinality(StonesOf(before, c)) - Cardinality(StonesOf(board, c)) >= 2

(* ---------------------------------------------------------------------- *)
(* C5                                                                      *)
(* ---------------------------------------------------------------------- *)

\* C5: at an in-bounds empty point that is not the ko point, is_valid_move
\* returns False exactly when the placement captures nothing and leaves the
\* group of the played stone without a liberty.
C5_RejectedIffSuicide ==
    \A p \in Points, c \in Colors :
        (At(board, p) = EMPTY /\ ko_point # p) =>
            (is_valid_move(Fields, p[1], p[2], c).ret = FALSE <=> SuicideAt(board, p, c))

\* is_valid_move returned False on a board with an empty point, not the ko
\* point, whose neighbours are all stones of one colour with other liberties.
C5_Witness ==
    /\ last.op = "is_valid_move" /\ last.ret = "False"
    /\ \E p \in Points, c \in Colors :
          /\ At(board, p) = EMPTY /\ ko_point # p
          /\ \A q \in Points : Adjacent(p, q) =>
                /\ At(board, q) = opposite(c)
                /\ Liberties(board, Component(board, q)) # {p}
          /\ ~is_valid_move(Fields, p[1], p[2], c).ret

(* ---------------------------------------------------------------------- *)
(* C6                                                                      *)
(* ---------------------------------------------------------------------- *)

\* The step took exactly one stone, at P, and the stone played is then a lone
\* stone whose only liberty is P.
KoShape(P) ==
    /\ Removed = {P}
    /\ Component(board', PlayedAt) = {PlayedAt}
    /\ Liberties(board', {PlayedAt}) = {P}

\* C6: when a successful place_stone captures exactly one stone at P and the
\* stone played is a lone stone whose only liberty is P, the ko point becomes
\* P, and place_stone at P by the opposite colour is then rejected with the
\* board unchanged.
C6_KoSetAndEnforced ==
    [][PlacedStep =>
          \A P \in Points :
              KoShape(P) =>
                  /\ ko_point' = P
                  /\ LET r == place_stone(FieldsNext, P[1], P[2], opposite(Played.color))
                     IN  r.ret = FALSE /\ r.s = FieldsNext]_vars

\* A ko has just been taken: the latest successful place_stone took one stone
\* at the ko point and stands there alone with the ko point as only liberty.
C6_Witness ==
    /\ last.op = "place_stone" /\ last.ret = "True"
    /\ ko_point # None
    /\ LET m == move_history[Len(move_history)]
       IN  /\ Component(board, <<m.x, m.y>>) = {<<m.x, m.y>>}
           /\ Liberties(board, {<<m.x, m.y>>}) = {ko_point}
           /\ At(Replay(move_history, Len(move_history) - 1).board, ko_point)
                 = opposite(m.color)

(* ---------------------------------------------------------------------- *)
(* C7                                                                      *)
(* ---------------------------------------------------------------------- *)

\* C7: a successful place_stone on a board whose ko point is P leaves a ko
\* point that is None or the point where this very move took exactly one
\* stone; it is never P again.
C7_KoClearedByNextMove ==
    [][(PlacedStep /\ ko_point # None) =>
          /\ ko_point' # ko_point
          /\ (ko_point' = None \/ Removed = {ko_point'})]_vars

\* The latest successful place_stone was played on a board whose ko point was set.
C7_Witness ==
    /\ last.op = "place_stone" /\ last.ret = "True"
    /\ Len(move_history) >= 2
    /\ Replay(move_history, Len(move_history) - 1).ko_point # None
    /\ ko_point = None

(* ---------------------------------------------------------------------- *)
(* C9                                                                      *)
(* ---------------------------------------------------------------------- *)

\* C9: a successful place_stone leaves a ko point only if it took exactly one
\* stone, and no other step changes the ko point.
C9_KoOnlyAfterSingleCapture ==
    [][/\ PlacedStep => (ko_point' # None => Cardinality(Removed) = 1)
       /\ ~PlacedStep => ko_point' = ko_point]_vars

\* A ko point stands after a successful place_stone that took the only stone
\* captured so far.
C9_Witness ==
    /\ last.op = "place_stone" /\ last.ret = "True"
    /\ ko_point # None
    /\ captured_black + captured_white = 1

(* ---------------------------------------------------------------------- *)
(* C8                                                                      *)
(* ---------------------------------------------------------------------- *)

\* The step is a pass recorded by cmd_move.
PassStep ==
    /\ last'.op = "cmd_move pass"
    /\ Len(move_history') = Len(move_history) + 1

\* C8: after a pass on a board whose ko point is P, a placement at P is no
\* longer a ko violation.
C8_PassClearsKo ==
    [][(PassStep /\ ko_point # None) =>
          ~IsKoViolation(ko_point', ko_point[1], ko_point[2])]_vars

(* ---------------------------------------------------------------------- *)
(* C10                                                                     *)
(* ---------------------------------------------------------------------- *)

\* C10: cmd_undo on a board with a non-empty history succeeds and leaves the
\* fields of a fresh board on which all but the last entry were replayed.
C10_UndoEqualsReplay ==
    [][(last'.op = "cmd_undo" /\ move_history # <<>>) =>
          /\ last'.ret = "Undone"
          /\ FieldsNext = Replay(move_history, Len(move_history) - 1)]_vars

(* ---------------------------------------------------------------------- *)
(* C11                                                                     *)
(* ---------------------------------------------------------------------- *)

\* C11: the board loaded from what save_to_dict wrote has the same grid, the
\* same capture counters, the same history (passes included) and the same ko
\* point as the board that was saved.
C11_LoadOfSaveIsSameBoard ==
    [][last'.op = "load_game" => FieldsNext = Fields]_vars

\* A board was saved and loaded whose ko point is (0, 0), with a capture
\* counted and a pass in its history.
C11_Witness ==
    /\ last.op = "load_game"
    /\ ko_point = <<0, 0>>
    /\ captured_black + captured_white > 0
    /\ \E i \in 1 .. Len(move_history) : move_history[i].x = -1

(* ---------------------------------------------------------------------- *)
(* Direct calls of get and set                                             *)
(* ---------------------------------------------------------------------- *)

\* The number of intersections a sequence of set calls may make differ from
\* the position it started from.
MaxSets == 2

\* As PositionCheck, without the lower bounds.
PositionCheckUpperOnly(x, y) == x < Size /\ y < Size

\* "if not self._is_valid_position(x, y): raise ValueError(...)" of get and set.
PositionCheck(x, y) == _is_valid_position(x, y)

\* A list of Size items indexed by i: a negative index counts from the end,
\* an index outside [-Size, Size) raises IndexError.
ListIndex(i) ==
    IF -Size <= i /\ i < Size
    THEN [raised |-> "None", index |-> IF i < 0 THEN i + Size ELSE i]
    ELSE [raised |-> "IndexError"]

\* board.get(x, y) as a caller sees it: the stone, or the exception raised.
get_call(s, x, y) ==
    IF ~PositionCheck(x, y) THEN [raised |-> "ValueError"]
    ELSE LET iy == ListIndex(y)
             ix == ListIndex(x)
         IN  IF iy.raised # "None" \/ ix.raised # "None" THEN [raised |-> "IndexError"]
             ELSE [raised |-> "None", value |-> get(s.board, ix.index, iy.index)]

\* board.set(x, y, stone) as a caller sees it: the exception raised, if any,
\* and the fields of the board after the call.
set_call(s, x, y, stone) ==
    IF ~PositionCheck(x, y) THEN [raised |-> "ValueError", s |-> s]
    ELSE LET iy == ListIndex(y)
             ix == ListIndex(x)
         IN  IF iy.raised # "None" \/ ix.raised # "None" THEN [raised |-> "IndexError", s |-> s]
             ELSE [raised |-> "None",
                   s |-> [s EXCEPT !.board = set(s.board, ix.index, iy.index, stone)]]

\* The positions passed to get and set: every intersection, and positions off
\* the grid with one or both coordinates negative or too large.
AccessPoints == ArgPoints \cup {<<-1, 0>>, <<0, -1>>, <<Size, Size>>}

\* The game the calls start from: white B1, A2, black C1, B2, and black A1
\* taking B1, which leaves the ko point (1, 0).
StartGame ==
    << Move(1, 0, WHITE), Move(0, 1, WHITE), Move(2, 0, BLACK),
       Move(1, 1, BLACK), Move(0, 0, BLACK) >>

StartPosition == Replay(StartGame, Len(StartGame))

InitAccess ==
    /\ board = StartPosition.board
    /\ captured_black = StartPosition.captured_black
    /\ captured_white = StartPosition.captured_white
    /\ move_history = StartPosition.move_history
    /\ ko_point = StartPosition.ko_point
    /\ last = [op |-> "GoBoard", ret |-> "None"]

\* The number of intersections where b differs from the start position.
Changed(b) == Cardinality({p \in Points : At(b, p) # At(StartPosition.board, p)})

\* A call of board.get(x, y).
Get(x, y) ==
    /\ last' = [op |-> "get", x |-> x, y |-> y, ret |-> get_call(Fields, x, y)]
    /\ UNCHANGED <<board, captured_black, captured_white, move_history, ko_point>>

\* A call of board.set(x, y, stone).
Set(x, y, stone) ==
    /\ Changed(board) < MaxSets
    /\ LET r == set_call(Fields, x, y, stone)
       IN  /\ board' = r.s.board
           /\ captured_black' = r.s.captured_black
           /\ captured_white' = r.s.captured_white
           /\ move_history' = r.s.move_history
           /\ ko_point' = r.s.ko_point
           /\ last' = [op |-> "set", x |-> x, y |-> y, stone |-> stone,
                       ret |-> [raised |-> r.raised]]

NextAccess ==
    \/ \E p \in AccessPoints : Get(p[1], p[2])
    \/ \E p \in AccessPoints, stone \in {EMPTY, BLACK, WHITE} : Set(p[1], p[2], stone)

SpecAccess == InitAccess /\ [][NextAccess]_vars

\* C14: after set(x, y, s) with (x, y) on the grid, get(x, y) returns s, get of
\* every other intersection returns what it returned before, and the capture
\* counters, the history and the ko point are unchanged.
C14_GetAfterSet ==
    [][(last'.op = "set" /\ <<last'.x, last'.y>> \in Points) =>
          /\ last'.ret = [raised |-> "None"]
          /\ get_call(FieldsNext, last'.x, last'.y) = [raised |-> "None", value |-> last'.stone]
          /\ \A q \in Points \ {<<last'.x, last'.y>>} :
                 get_call(FieldsNext, q[1], q[2]) = get_call(Fields, q[1], q[2])
          /\ captured_black' = captured_black
          /\ captured_white' = captured_white
          /\ move_history' = move_history
          /\ ko_point' = ko_point]_vars

C14_Witness ==
    /\ last.op = "set"
    /\ <<last.x, last.y>> \in Points
    /\ last.x # last.y
    /\ last.stone # At(StartPosition.board, <<last.x, last.y>>)
    /\ Changed(board) = MaxSets
    /\ ko_point # None
    /\ captured_black + captured_white > 0
    /\ move_history # <<>>

\* C15: get(x, y) and set(x, y, s) with x or y outside [0, size), negative
\* coordinates included, raise the out-of-bounds error, and such a call leaves
\* the grid, the counters, the history and the ko point unchanged.
C15_OutOfBoundsIsAnError ==
    [][(last'.op \in {"get", "set"} /\ <<last'.x, last'.y>> \notin Points) =>
          /\ last'.ret = [raised |-> "ValueError"]
          /\ FieldsNext = Fields]_vars

C15_Witness ==
    /\ last.op = "set"
    /\ last.x = -1
    /\ last.y = -1
    /\ last.stone = WHITE
    /\ last.ret = [raised |-> "ValueError"]
    /\ At(board, <<Size - 1, Size - 1>>) # WHITE

(* ---------------------------------------------------------------------- *)
(* Conversions between moves and human-readable coordinates                *)
(* ---------------------------------------------------------------------- *)

\* The largest board size GoBoard accepts.
LargestSize == 19

\* The column and row indices of the largest board.
HumanRange == 0 .. (LargestSize - 1)

\* text.lower()
LowerText(text) == [i \in 1 .. Len(text) |-> Lower(text[i])]

\* A Move(x, y, BLACK) for every intersection of the largest board.
InitCoords ==
    /\ board = NewBoard.board
    /\ captured_black = NewBoard.captured_black
    /\ captured_white = NewBoard.captured_white
    /\ move_history = NewBoard.move_history
    /\ ko_point = NewBoard.ko_point
    /\ \E x \in HumanRange, y \in HumanRange :
           last = [op |-> "Move", ret |-> Move(x, y, BLACK)]

\* move.to_human_coords()
ToHumanCoords ==
    /\ last.op = "Move"
    /\ last' = [op |-> "to_human_coords", move |-> last.ret,
                ret |-> to_human_coords(last.ret)]
    /\ UNCHANGED <<board, captured_black, captured_white, move_history, ko_point>>

\* Move.from_human_coords(text, color) of the text to_human_coords gave, as
\* it is or typed in lower case.
FromHumanCoords(lower) ==
    /\ last.op = "to_human_coords"
    /\ LET text == IF lower THEN LowerText(last.ret) ELSE last.ret
       IN  last' = [op |-> "from_human_coords", move |-> last.move, text |-> text,
                    ret |-> from_human_coords(text, last.move.color)]
    /\ UNCHANGED <<board, captured_black, captured_white, move_history, ko_point>>

NextCoords ==
    \/ ToHumanCoords
    \/ \E lower \in BOOLEAN : FromHumanCoords(lower)

SpecCoords == InitCoords /\ [][NextCoords]_vars

\* C16: human-readable coordinates skip the letter I. to_human_coords of a move
\* in column 8 gives the letter J; from_human_coords of a text beginning with J
\* gives column 8; from_human_coords of a text beginning with I fails; and
\* from_human_coords of to_human_coords of a move gives back its column and row.
C16_HumanCoordsSkipI ==
    /\ (last.op = "to_human_coords" /\ last.move.x = 8) => last.ret[1] = "J"
    /\ (last.op = "from_human_coords" /\ Upper(last.text[1]) = "J") =>
           (last.ret.raised = "None" /\ last.ret.move.x = 8)
    /\ (last.op = "from_human_coords" /\ Upper(last.text[1]) = "I") =>
           last.ret.raised = "ValueError"
    /\ last.op = "from_human_coords" =>
           last.ret = [raised |-> "None", move |-> last.move]

\* C18: the ko point binds only the colour that would recapture. After colour c
\* takes a ko and the ko point becomes P, a placement at P by the opposite
\* colour is rejected, while a placement at P by c is judged as it would be
\* with no ko point set.
C18_KoBindsOnlyRecapturer ==
    [][PlacedStep =>
          \A P \in Points :
              (KoShape(P) /\ ko_point' = P) =>
                  /\ ~is_valid_move(FieldsNext, P[1], P[2], opposite(Played.color)).ret
                  /\ is_valid_move(FieldsNext, P[1], P[2], Played.color).ret
                         = is_valid_move([FieldsNext EXCEPT !.ko_point = None],
                                         P[1], P[2], Played.color).ret]_vars

(* ---------------------------------------------------------------------- *)
(* Construction of a board: GoBoard(size)                                  *)
(* ---------------------------------------------------------------------- *)

\* The largest size argument tried (the smallest is -1).
MaxSizeArg == 30

SizeArgs == -1 .. MaxSizeArg

\* As ValidSizes, with 11 accepted as well.
ValidSizesWithEleven == {9, 11, 13, 19}

\* "if size not in [9, 13, 19]"
ValidSizes == {9, 13, 19}

\* GoBoard(size): the exception raised, or the fields of the new board. The
\* grid is built for the size asked for; the rules above are explored on a
\* grid of Size rows, which stands for any of the sizes accepted here.
GoBoardNew(size) ==
    IF size \notin ValidSizes THEN [raised |-> "ValueError"]
    ELSE [raised |-> "None",
          s |-> [size           |-> size,
                 board          |-> [y \in 0 .. (size - 1) |-> [x \in 0 .. (size - 1) |-> EMPTY]],
                 captured_black |-> 0,
                 captured_white |-> 0,
                 move_history   |-> <<>>,
                 ko_point       |-> None]]

\* No board has been constructed yet: the variable that is to hold it has no
\* fields.
InitNew ==
    /\ board = None
    /\ captured_black = None
    /\ captured_white = None
    /\ move_history = None
    /\ ko_point = None
    /\ last = [op |-> "start", ret |-> "None"]

\* "board = GoBoard(size)": when the constructor raises, the assignment does
\* not happen and the variable keeps what it held.
Construct(size) ==
    LET r == GoBoardNew(size)
    IN  /\ last' = [op |-> "GoBoard", size |-> size, ret |-> r.raised]
        /\ IF r.raised # "None"
           THEN UNCHANGED <<board, captured_black, captured_white, move_history, ko_point>>
           ELSE /\ board' = r.s.board
                /\ captured_black' = r.s.captured_black
                /\ captured_white' = r.s.captured_white
                /\ move_history' = r.s.move_history
                /\ ko_point' = r.s.ko_point

NextNew == \E size \in SizeArgs : Construct(size)

SpecNew == InitNew /\ [][NextNew]_vars

\* C19: GoBoard(size) succeeds exactly for the sizes 9, 13 and 19, and then
\* gives a grid of size rows of size empty intersections, both counters 0, an
\* empty history and no ko point; for any other size it raises the
\* configuration error and no board is created.
C19_ConstructorSizes ==
    [][last'.op = "GoBoard" =>
          IF last'.size \in {9, 13, 19}
          THEN /\ last'.ret = "None"
               /\ DOMAIN board' = 0 .. (last'.size - 1)
               /\ \A y \in DOMAIN board' :
                      /\ DOMAIN board'[y] = 0 .. (last'.size - 1)
                      /\ \A x \in DOMAIN board'[y] : board'[y][x] = EMPTY
               /\ captured_black' = 0
               /\ captured_white' = 0
               /\ move_history' = <<>>
               /\ ko_point' = None
          ELSE /\ last'.ret = "ValueError"
               /\ FieldsNext = Fields]_vars

C19_Witness ==
    /\ last.op = "GoBoard"
    /\ last.size = 13
    /\ last.ret = "None"
    /\ board # None
    /\ board[12][12] = EMPTY

RECURSIVE ReplaySucceeds(_, _, _, _)
\* Every place_stone call of the replay of entries i .. n on temp returns True.
ReplaySucceeds(temp, history, i, n) ==
    IF i > n THEN TRUE
    ELSE LET move == history[i]
         IN  IF move.x >= 0 /\ move.y >= 0
             THEN LET r == place_stone(temp, move.x, move.y, move.color)
                  IN  r.ret /\ ReplaySucceeds(r.s, history, i + 1, n)
             ELSE ReplaySucceeds(temp, history, i + 1, n)

\* C20: after every step of a game of place_stone calls and recorded passes
\* that records an entry, replaying the whole history on a fresh board (passes
\* skipped) succeeds on every entry and gives the grid, the two capture
\* counters and the ko point of the live board; and a step that records
\* nothing leaves these as they were, so the live state after the k-th entry
\* is the replay of k entries.
C20_ReplayReproducesBoard ==
    [][/\ move_history' # move_history =>
              /\ ReplaySucceeds(NewBoard, move_history', 1, Len(move_history'))
              /\ LET replayed == Replay(move_history', Len(move_history'))
                 IN  /\ replayed.board = board'
                     /\ replayed.captured_black = captured_black'
                     /\ replayed.captured_white = captured_white'
                     /\ replayed.ko_point = ko_point'
       /\ move_history' = move_history =>
              /\ board' = board
              /\ captured_black' = captured_black
              /\ captured_white' = captured_white
              /\ ko_point' = ko_point]_vars

C20_Witness ==
    /\ last.op = "cmd_move pass"
    /\ ko_point # None
    /\ captured_black + captured_white > 0
    /\ Len(move_history) >= 6
    /\ Replay(move_history, Len(move_history)).ko_point = ko_point

\* C12: a move that is illegal for a rule reason (occupied point, ko, suicide),
\* made through cmd_move, ends with the failure report of the command (exit
\* status 1 after the message with the reason), whatever colour option is given.
C12_IllegalMoveReportedWithReason ==
    \A p \in Points, color_arg \in ColorArgs :
        LET c == MoveColor(color_arg, move_history)
        IN  IllegalMove(p, c) =>
                cmd_move(Fields, color_arg, to_human_coords(Move(p[1], p[2], c))).ret = "exit 1"

\* C13: the history is append-only under play. Across every step the history
\* before is a prefix of the history after; a successful place_stone appends
\* exactly one record, the record of the stone it put on the grid (its point
\* was empty before and holds the recorded colour after); a failed place_stone
\* appends nothing; a recorded pass appends exactly one pass record.
C13_HistoryAppendOnly ==
    [][/\ IsPrefix(move_history, move_history')
       /\ (last'.op = "place_stone" /\ last'.ret = "True") =>
              /\ Len(move_history') = Len(move_history) + 1
              /\ LET m == move_history'[Len(move_history')]
                 IN  /\ <<m.x, m.y>> \in Points
                     /\ get(board, m.x, m.y) = EMPTY
                     /\ get(board', m.x, m.y) = m.color
       /\ (last'.op = "place_stone" /\ last'.ret = "False") => move_history' = move_history
       /\ last'.op = "cmd_move pass" =>
              /\ Len(move_history') = Len(move_history) + 1
              /\ move_history'[Len(move_history')].x = -1
              /\ move_history'[Len(move_history')].y = -1]_vars

C13_Witness ==
    /\ last.op = "place_stone"
    /\ last.ret = "True"
    /\ Len(move_history) >= 3
    /\ \E i \in 1 .. Len(move_history) - 1 : move_history[i].x = -1
    /\ captured_black + captured_white > 0

\* C17: a cmd_move with the colour left to auto-detection keeps the recorded
\* colours alternating from black: entry i (counted from 0) is BLACK iff i is even.
Alternates(history) ==
    \A i \in 1 .. Len(history) :
        history[i].color = (IF (i - 1) % 2 = 0 THEN BLACK ELSE WHITE)

C17_AutoColourAlternates ==
    [][(/\ last'.op \in {"cmd_move", "cmd_move pass"}
        /\ last'.color_arg = "None"
        /\ Alternates(move_history))
       => Alternates(move_history')]_vars

C17_Witness ==
    /\ last.op = "cmd_move pass"
    /\ last.color_arg = "None"
    /\ Len(move_history) >= 3
    /\ Alternates(move_history)
    /\ \E i \in 1 .. Len(move_history) : move_history[i].x >= 0

(* ---------------------------------------------------------------------- *)
(* C21                                                                     *)
(* ---------------------------------------------------------------------- *)

\* The orders in which the four directions can be examined.
DirectionOrders ==
    {[i \in 1 .. Len(Directions) |-> Directions[f[i]]] :
        f \in {g \in [1 .. Len(Directions) -> 1 .. Len(Directions)] :
                  \A i, j \in 1 .. Len(Directions) : g[i] = g[j] => i = j}}

\* _get_neighbors with the directions examined in the order dirs.
NeighborListIn(dirs, x, y) ==
    LET cand == [i \in 1 .. Len(dirs) |-> <<x + dirs[i][1], y + dirs[i][2]>>]
        InBounds(p) == _is_valid_position(p[1], p[2])
    IN  SelectSeq(cand, InBounds)

\* The ko point place_stone computes on the grid b left by the captures when
\* its detection loop examines the neighbours of (x, y) in the order dirs.
KoInOrder(b, old_ko, x, y, color, captured, dirs) ==
    IF KoGuard(captured)
    THEN KoLoop(b, ClearKo(old_ko), NeighborListIn(dirs, x, y), 1, x, y, color).ko_point
    ELSE ClearKo(old_ko)

\* The empty neighbours of p on the grid b.
EmptyNeighbours(b, p) == {q \in Points : Adjacent(p, q) /\ At(b, q) = EMPTY}

\* C21: for every reachable position and every legal move, the ko point that
\* place_stone computes is the same for every order in which the ko detection
\* examines the four neighbour directions.
C21_KoIndependentOfOrder ==
    \A p \in Points, c \in Colors :
        is_valid_move(Fields, p[1], p[2], c).ret =>
            LET cap == _capture_stones(set(board, p[1], p[2], c), p[1], p[2], c)
                ko  == place_stone(Fields, p[1], p[2], c).s.ko_point
            IN  \A dirs \in DirectionOrders :
                    KoInOrder(cap.board, ko_point, p[1], p[2], c, cap.captured, dirs) = ko

\* A legal move is at hand that takes exactly one stone and leaves the played
\* point with two or more empty neighbours, so that the orders differ in the
\* neighbour they reach first; and another one that sets a ko point.
C21_Witness ==
    /\ \E p \in Points, c \in Colors :
           /\ is_valid_move(Fields, p[1], p[2], c).ret
           /\ LET cap == _capture_stones(set(board, p[1], p[2], c), p[1], p[2], c)
              IN  cap.captured = 1 /\ Cardinality(EmptyNeighbours(cap.board, p)) >= 2
    /\ \E p \in Points, c \in Colors :
           /\ is_valid_move(Fields, p[1], p[2], c).ret
           /\ place_stone(Fields, p[1], p[2], c).s.ko_point # None

(* ---------------------------------------------------------------------- *)
(* C22                                                                     *)
(* ---------------------------------------------------------------------- *)

\* C22: whenever a successful place_stone leaves a ko point, the stone just
\* played is a group of exactly one stone whose only liberty is the ko point;
\* a stone that joins a group of two or more stones sets no ko point.
C22_KoIsSimpleKo ==
    [][(PlacedStep /\ ko_point' # None) =>
          /\ Component(board', PlayedAt) = {PlayedAt}
          /\ Liberties(board', {PlayedAt}) = {ko_point'}]_vars

(* ---------------------------------------------------------------------- *)
(* Calls of the group helpers on arbitrary grids                           *)
(* ---------------------------------------------------------------------- *)

\* Every grid of the modelled size (any of them can be built with set), on a
\* board with nothing captured, no history and no ko point.
InitBoards ==
    /\ board \in [Coords -> [Coords -> {EMPTY, BLACK, WHITE}]]
    /\ captured_black = 0
    /\ captured_white = 0
    /\ move_history = <<>>
    /\ ko_point = None
    /\ last = [op |-> "board", ret |-> "None"]

\* A call of board._capture_stones(x, y, color) on the grid as it stands.
CaptureStones(x, y, color) ==
    /\ last.op = "board"
    /\ \E cap \in {_capture_stones(board, x, y, color)} :
           /\ board' = cap.board
           /\ last' = [op |-> "_capture_stones", x |-> x, y |-> y, color |-> color,
                       before |-> board, ret |-> cap.captured]
    /\ UNCHANGED <<captured_black, captured_white, move_history, ko_point>>

NextCapture == \E p \in Points, color \in Colors : CaptureStones(p[1], p[2], color)

SpecCapture == InitBoards /\ [][NextCapture]_vars

(* ---------------------------------------------------------------------- *)
(* C23                                                                     *)
(* ---------------------------------------------------------------------- *)

\* The stones of colour opposite to c on b whose group contains a neighbour of
\* p and has no liberty.
DeadNeighbourStones(b, p, c) ==
    UNION {G \in {Component(b, n) : n \in {q \in Points : Adjacent(q, p) /\ At(b, q) = opposite(c)}} :
              Liberties(b, G) = {}}

\* C23: _capture_stones(x, y, color) empties exactly the intersections of the
\* opposite-colour groups that contain a neighbour of (x, y) and have no
\* liberty, leaves every other intersection as it was, and returns the number
\* of stones it removed.
C23_CaptureStonesExact ==
    [][last'.op = "_capture_stones" =>
          \E dead \in {DeadNeighbourStones(board, <<last'.x, last'.y>>, last'.color)} :
              /\ \A q \in Points :
                     At(board', q) = IF q \in dead THEN EMPTY ELSE At(board, q)
              /\ last'.ret = Cardinality(dead)]_vars

\* A call that removed a group of three or more stones holding two neighbours
\* of (x, y), together with a second group.
C23_Witness ==
    /\ last.op = "_capture_stones"
    /\ LET p    == <<last.x, last.y>>
           dead == DeadNeighbourStones(last.before, p, last.color)
       IN  /\ last.ret = Cardinality(dead)
           /\ \E q \in dead :
                  /\ Cardinality(Component(last.before, q)) >= 3
                  /\ Cardinality({r \in Component(last.before, q) : Adjacent(r, p)}) >= 2
           /\ \E q1, q2 \in dead : q2 \notin Component(last.before, q1)

\* A call of board._get_group(x, y).
GetGroup(x, y) ==
    /\ last.op = "board"
    /\ last' = [op |-> "_get_group", x |-> x, y |-> y, ret |-> _get_group(board, x, y)]
    /\ UNCHANGED <<board, captured_black, captured_white, move_history, ko_point>>

\* A call of board._has_liberties(group).
HasLiberties(group) ==
    /\ last.op = "board"
    /\ last' = [op |-> "_has_liberties", group |-> group,
                ret |-> PyBool(_has_liberties(board, group))]
    /\ UNCHANGED <<board, captured_black, captured_white, move_history, ko_point>>

\* _has_liberties is called with the group of an intersection (the empty set
\* for an empty one), and with single intersections.
NextGroup ==
    \/ \E p \in Points : GetGroup(p[1], p[2])
    \/ \E p \in Points : HasLiberties(_get_group(board, p[1], p[2]))
    \/ \E p \in Points : HasLiberties({p})

SpecGroup == InitBoards /\ [][NextGroup]_vars

(* ---------------------------------------------------------------------- *)
(* C24                                                                     *)
(* ---------------------------------------------------------------------- *)

\* C24: _get_group(x, y) is the empty set when (x, y) is empty; otherwise it
\* is the maximal connected same-colour set of intersections that contains
\* (x, y), and _get_group gives the same set from each of its members.
C24_GetGroupIsComponent ==
    [][last'.op = "_get_group" =>
          IF At(board, <<last'.x, last'.y>>) = EMPTY
          THEN last'.ret = {}
          ELSE /\ last'.ret = Component(board, <<last'.x, last'.y>>)
               /\ \A q \in last'.ret : _get_group(board, q[1], q[2]) = last'.ret]_vars

\* A group of four or more stones, with a stone of its colour elsewhere on
\* the grid that does not belong to it.
C24_Witness ==
    /\ last.op = "_get_group"
    /\ Cardinality(last.ret) >= 4
    /\ \E q \in Points \ last.ret : At(board, q) = At(board, <<last.x, last.y>>)

(* ---------------------------------------------------------------------- *)
(* C26                                                                     *)
(* ---------------------------------------------------------------------- *)

\* C26: _has_liberties(group) is True exactly when some intersection of the
\* group is adjacent to an empty intersection of the grid; it is False for
\* the empty group.
C26_HasLibertiesIffEmptyNeighbour ==
    [][last'.op = "_has_liberties" =>
          /\ last'.ret = PyBool(\E q \in last'.group, r \in Points :
                                   Adjacent(q, r) /\ At(board, r) = EMPTY)
          /\ last'.group = {} => last'.ret = "False"]_vars

\* A group of three or more stones whose only liberty is one intersection.
C26_Witness ==
    /\ last.op = "_has_liberties"
    /\ last.ret = "True"
    /\ Cardinality(last.group) >= 3
    /\ Cardinality(Liberties(board, last.group)) = 1

(* ---------------------------------------------------------------------- *)
(* Calls of _get_neighbors on boards of the sizes GoBoard accepts          *)
(* ---------------------------------------------------------------------- *)

\* A new board of each accepted size.
InitSizes ==
    \E size \in ValidSizes :
        /\ board = GoBoardNew(size).s.board
        /\ captured_black = 0
        /\ captured_white = 0
        /\ move_history = <<>>
        /\ ko_point = None
        /\ last = [op |-> "GoBoard", size |-> size, ret |-> "None"]

\* A call of board._get_neighbors(x, y) for an intersection of the board.
GetNeighbors(x, y) ==
    /\ IsValidPositionOn(last.size, x, y)
    /\ last' = [op |-> "_get_neighbors", size |-> last.size, x |-> x, y |-> y,
                ret |-> NeighborsOn(last.size, x, y)]
    /\ UNCHANGED <<board, captured_black, captured_white, move_history, ko_point>>

NextNeighbors == \E x \in HumanRange, y \in HumanRange : GetNeighbors(x, y)

SpecNeighbors == InitSizes /\ [][NextNeighbors]_vars

(* ---------------------------------------------------------------------- *)
(* C25                                                                     *)
(* ---------------------------------------------------------------------- *)

\* The number of coordinates of (x, y) that lie on the border of the board.
OnBorder(size, x, y) ==
    (IF x = 0 \/ x = size - 1 THEN 1 ELSE 0) + (IF y = 0 \/ y = size - 1 THEN 1 ELSE 0)

\* C25: _get_neighbors(x, y) lists, each once, exactly the intersections of
\* the board at distance one from (x, y) along a row or a column, and no
\* diagonal one: two at a corner, three on an edge, four in the interior.
C25_NeighboursOrthogonalInBounds ==
    last.op = "_get_neighbors" =>
        LET ret == {last.ret[i] : i \in 1 .. Len(last.ret)}
        IN  /\ ret = {q \in (0 .. last.size - 1) \X (0 .. last.size - 1) :
                          Adjacent(q, <<last.x, last.y>>)}
            /\ Len(last.ret) = Cardinality(ret)
            /\ Len(last.ret) = 4 - OnBorder(last.size, last.x, last.y)

\* The corner (18, 18) of a 19 board, with its two neighbours.
C25_Witness ==
    /\ last.op = "_get_neighbors"
    /\ last.size = 19 /\ last.x = 18 /\ last.y = 18
    /\ Len(last.ret) = 2

(* ---------------------------------------------------------------------- *)
(* C27                                                                     *)
(* ---------------------------------------------------------------------- *)

\* The capture counter that place_stone raises when stones of colour c are
\* taken: captured_black for black stones, captured_white for white ones.
CapturedOf(c) == IF c = BLACK THEN captured_black ELSE captured_white

\* The number of entries of the history that record a stone of colour c.
StonesPlayed(h, c) ==
    Cardinality({i \in 1 .. Len(h) : h[i].x >= 0 /\ h[i].y >= 0 /\ h[i].color = c})

\* C27: stone conservation. In every state reached by place_stone calls and
\* recorded passes, for each colour the stones of that colour on the grid plus
\* the capture counter of that colour equal the number of stones of that
\* colour recorded in the history; and no step lowers a counter.
C27_StoneConservation ==
    [][/\ \A c \in Colors :
              Cardinality(StonesOf(board', c))
                  + (IF c = BLACK THEN captured_black' ELSE captured_white')
                  = StonesPlayed(move_history', c)
       /\ captured_black' >= captured_black
       /\ captured_white' >= captured_white]_vars

\* Stones have been taken, stones of both colours stand on the grid, and the
\* history holds a pass.
C27_Witness ==
    /\ captured_black + captured_white > 0
    /\ StonesOf(board, BLACK) # {} /\ StonesOf(board, WHITE) # {}
    /\ \E i \in 1 .. Len(move_history) : move_history[i].x < 0
    /\ \A c \in Colors :
           Cardinality(StonesOf(board, c)) + CapturedOf(c) = StonesPlayed(move_history, c)

(* ---------------------------------------------------------------------- *)
(* C28                                                                     *)
(* ---------------------------------------------------------------------- *)

\* C28: a successful place_stone(x, y, c) changes the grid at (x, y), which
\* was empty and holds c afterwards, and otherwise only at intersections that
\* held the opposite colour and are empty afterwards: no stone of colour c
\* leaves the grid and no other empty intersection is occupied when the call
\* returns, the stones set by the ko detection included.
C28_PlaceStoneFrame ==
    [][PlacedStep =>
          /\ At(board, PlayedAt) = EMPTY
          /\ At(board', PlayedAt) = Played.color
          /\ \A q \in Points \ {PlayedAt} :
                 \/ At(board', q) = At(board, q)
                 \/ At(board, q) = opposite(Played.color) /\ At(board', q) = EMPTY]_vars

\* The latest move was a capture whose ko detection probed an empty
\* neighbour: that neighbour is the ko point and is empty, and the stone
\* played stands.
C28_Witness ==
    /\ last.op = "place_stone" /\ last.ret = "True"
    /\ ko_point # None
    /\ At(board, ko_point) = EMPTY
    /\ LET m == move_history[Len(move_history)]
       IN  At(board, <<m.x, m.y>>) = m.color /\ Adjacent(<<m.x, m.y>>, ko_point)

(* ---------------------------------------------------------------------- *)
(* C29                                                                     *)
(* ---------------------------------------------------------------------- *)

\* C29: in every state reached by place_stone calls from the empty board, a ko
\* point that is not None is an intersection of the grid, is empty, and is
\* orthogonally adjacent to the point of the last entry of the history.
C29_KoPointEmptyNextToLastMove ==
    ko_point # None =>
        /\ ko_point \in Points
        /\ At(board, ko_point) = EMPTY
        /\ move_history # <<>>
        /\ LET m == move_history[Len(move_history)]
           IN  Adjacent(ko_point, <<m.x, m.y>>)

\* A ko point is set, and a call made since then has been rejected.
C29_Witness ==
    /\ ko_point # None
    /\ last.ret = "False"
    /\ Len(move_history) >= 5

(* ---------------------------------------------------------------------- *)
(* cmd_history and cmd_export                                              *)
(* ---------------------------------------------------------------------- *)

\* to_sgf_coords of a move: the letters of its column and of its row.
to_sgf_coords(move) == << Chr(Ord("a") + move.x), Chr(Ord("a") + move.y) >>

\* The lines cmd_history prints for the moves of a history: the move number,
\* the colour name, and "passes" or the coordinates.
HistoryLines(history) ==
    [n \in 1 .. Len(history) |->
        LET i    == n - 1
            move == history[n]
        IN  [move_num |-> i + 1,
             color    |-> IF i % 2 = 0 THEN "Black" ELSE "White",
             what     |-> IF move.x = -1 /\ move.y = -1
                          THEN <<"passes">> ELSE to_human_coords(move)]]

\* The move nodes cmd_export writes: ";B[..]" or ";W[..]", with nothing
\* between the brackets for a pass.
ExportNodes(history) ==
    [n \in 1 .. Len(history) |->
        LET i    == n - 1
            move == history[n]
        IN  [color  |-> IF i % 2 = 0 THEN "B" ELSE "W",
             coords |-> IF move.x = -1 /\ move.y = -1
                        THEN <<>> ELSE to_sgf_coords(move)]]

\* cmd_history on the stored game.
CmdHistory ==
    /\ last' = [op    |-> "cmd_history",
                ret   |-> IF move_history = <<>> THEN "No moves played yet." ELSE "None",
                lines |-> HistoryLines(move_history)]
    /\ UNCHANGED <<board, captured_black, captured_white, move_history, ko_point>>

\* cmd_export on the stored game.
CmdExport ==
    /\ last' = [op |-> "cmd_export", ret |-> "None", nodes |-> ExportNodes(move_history)]
    /\ UNCHANGED <<board, captured_black, captured_white, move_history, ko_point>>

\* Games made of place_stone calls and of passes recorded by cmd_move, with
\* or without --color, and the two commands that print their history.
NextView ==
    \/ \E p \in ArgPoints, color \in Colors : PlaceStone(p[1], p[2], color)
    \/ \E color_arg \in ColorArgs : CmdMovePass(color_arg)
    \/ CmdHistory
    \/ CmdExport

SpecView == Init /\ [][NextView]_vars

(* ---------------------------------------------------------------------- *)
(* C30                                                                     *)
(* ---------------------------------------------------------------------- *)

\* C30: the colour that cmd_history and cmd_export print for entry i of the
\* history is the colour recorded in that entry.
C30_PrintedColourIsRecordedColour ==
    /\ last.op = "cmd_history" =>
           \A n \in 1 .. Len(move_history) :
               last.lines[n].color = (IF move_history[n].color = BLACK THEN "Black" ELSE "White")
    /\ last.op = "cmd_export" =>
           \A n \in 1 .. Len(move_history) :
               last.nodes[n].color = (IF move_history[n].color = BLACK THEN "B" ELSE "W")

(* ---------------------------------------------------------------------- *)
(* Two cmd_move invocations on one game file                               *)
(* ---------------------------------------------------------------------- *)

\* The invocations of cmd_move that run at the same time.
Calls == {1, 2}

\* args.position of the invocations: a pass in two spellings, an intersection,
\* and a text that is too short.
RacePositions ==
    { <<"p", "a", "s", "s">>, <<"P", "a", "s", "s">>, <<"A", "1">>, <<"A">> }

\* The games found in the file when the invocations start: a new game, and
\* the games the openings lead to.
StoredGames == {NewBoard} \cup { Replay(o, Len(o)) : o \in Openings }

\* An invocation that has not started: its arguments, and nothing loaded.
NewCall(color_arg, position) ==
    [pc        |-> "load",
     color_arg |-> color_arg,
     position  |-> position,
     board     |-> None,
     move      |-> None,
     ret       |-> "None",
     printed   |-> "None"]

\* The five variables are the game in the file; last.calls are the invocations.
InitRace ==
    /\ \E s \in StoredGames :
           /\ board = s.board
           /\ captured_black = s.captured_black
           /\ captured_white = s.captured_white
           /\ move_history = s.move_history
           /\ ko_point = s.ko_point
    /\ \E a \in ColorArgs \X RacePositions, b \in ColorArgs \X RacePositions :
           last = [op    |-> "cmd_move",
                   calls |-> << NewCall(a[1], a[2]), NewCall(b[1], b[2]) >>]

\* cmd_move between load_game and save_game, on the board it loaded: the pass
\* appended to the history of that board, or the move parsed and placed.  pc
\* is "save" when save_game comes next and "done" when the command has ended.
cmd_move_loaded(call) ==
    LET color == MoveColor(call.color_arg, call.board.move_history)
    IN  IF LowerText(call.position) = <<"p", "a", "s", "s">>
        THEN [call EXCEPT !.pc    = "save",
                          !.move  = Move(-1, -1, color),
                          !.board = [call.board EXCEPT !.move_history =
                                        Append(@, Move(-1, -1, color))]]
        ELSE LET out == cmd_move(call.board, call.color_arg, call.position)
             IN  IF out.ret # "None"
                 THEN [call EXCEPT !.pc = "done", !.ret = out.ret]
                 ELSE [call EXCEPT !.pc    = "save",
                                   !.move  = out.stored.move_history[Len(out.stored.move_history)],
                                   !.board = out.stored]

\* "board = load_game(args.name)" of invocation c: the file as it is now.
LoadGame(c) ==
    /\ last.calls[c].pc = "load"
    /\ last' = [last EXCEPT !.calls[c].pc    = "move",
                            !.calls[c].board =
                                load_from_dict(JsonRoundTrip(save_to_dict(Fields)))]
    /\ UNCHANGED <<board, captured_black, captured_white, move_history, ko_point>>

\* Invocation c changes the board it loaded; the file is not touched.
MakeMove(c) ==
    /\ last.calls[c].pc = "move"
    /\ \E call \in {cmd_move_loaded(last.calls[c])} :
           last' = [last EXCEPT !.calls[c] = call]
    /\ UNCHANGED <<board, captured_black, captured_white, move_history, ko_point>>

\* "save_game(args.name, board)" of invocation c, and the line it prints
\* afterwards: the file becomes the board of this invocation.
SaveGame(c) ==
    /\ last.calls[c].pc = "save"
    /\ \E loaded \in {load_from_dict(JsonRoundTrip(save_to_dict(last.calls[c].board)))} :
           /\ board' = loaded.board
           /\ captured_black' = loaded.captured_black
           /\ captured_white' = loaded.captured_white
           /\ move_history' = loaded.move_history
           /\ ko_point' = loaded.ko_point
    /\ last' = [last EXCEPT !.calls[c].pc      = "done",
                            !.calls[c].printed =
                                IF last.calls[c].move.x = -1 THEN "passes" ELSE "plays at"]

NextRace ==
    \/ \E c \in Calls : LoadGame(c)
    \/ \E c \in Calls : MakeMove(c)
    \/ \E c \in Calls : SaveGame(c)

SpecRace == InitRace /\ [][NextRace]_vars

(* ---------------------------------------------------------------------- *)
(* C31                                                                     *)
(* ---------------------------------------------------------------------- *)

\* The invocations that reported success.
Succeeded == {c \in Calls : last.calls[c].printed # "None"}

\* Every move in moved has an entry of its own in the history, at or after
\* the place where its invocation appended it.
MovesPresent(history, calls, moved) ==
    \E at \in [moved -> 1 .. Len(history)] :
        /\ \A c, d \in moved : c # d => at[c] # at[d]
        /\ \A c \in moved : /\ history[at[c]] = calls[c].move
                             /\ at[c] >= Len(calls[c].board.move_history)

\* C31: once two overlapping cmd_move invocations have both ended, whatever
\* the order of their load, move and save steps, the history in the file holds
\* the move of every invocation that reported success, and the grid in the
\* file is the replay of that history.
C31_NoLostMoves ==
    (\A c \in Calls : last.calls[c].pc = "done") =>
        /\ MovesPresent(move_history, last.calls, Succeeded)
        /\ board = Replay(move_history, Len(move_history)).board

====
